---------------------------- MODULE Spec2Model ----------------------------
(* Telemetry configuration resolution of the Google Cloud plugin          *)
(* (TelemetryConfigs), the two plugin initialisers that use it            *)
(* (googleCloud, firebase) and the logger built from the resolved         *)
(* configuration (GcpLogger.getLogger).                                   *)
(*                                                                        *)
(* JavaScript values: a value that may be undefined is a sequence of      *)
(* length at most one, <<>> is undefined and <<v>> is the value v. An     *)
(* object is a function from its own property names to such values, so a  *)
(* property that is present with the value undefined differs from a       *)
(* property that is absent.                                               *)
EXTENDS Integers, Sequences, FiniteSets, TLC

VARIABLES
    env,              \* what isDevEnv() reads: "dev" or "prod"
    overrides,        \* the telemetryConfig options object the caller holds
    call,             \* the last call of a TelemetryConfigs function
    first,            \* the first call of this process (kept for comparison)
    credsEnv,         \* process.env.GCLOUD_SERVICE_ACCOUNT_CREDS
    options,          \* the other plugin options the caller passes
    plugin,           \* what the plugin initialiser returned
    additionalStream, \* module-level variable of gcpLogger
    logger            \* what GcpLogger.getLogger returned

vars == <<env, overrides, call, first, credsEnv, options, plugin,
          additionalStream, logger>>

-----------------------------------------------------------------------------
(* Bounds *)

\* An options object built by the caller has at most this many properties.
MaxOverrideFields == 2

\* The calls of TelemetryConfigs.defaults that are followed in one process.
MaxCalls == 3

-----------------------------------------------------------------------------
(* JavaScript values *)

Undefined == <<>>
Some(v) == <<v>>
EmptyObject == [f \in {} |-> Undefined]
Envs == {"dev", "prod"}

\* o.f: the value of an own property, undefined when the property is absent.
Get(o, f) == IF f \in DOMAIN o THEN o[f] ELSE Undefined

\* v !== undefined in place of !!v: false counts as set.
TruthyNotUndefined(v) == v # Undefined

\* !!v for the values that occur here (undefined and false are falsy).
Truthy(v) == v # Undefined /\ v[1] = TRUE

\* { ...a, ...defaults }: the operands of the spread the wrong way round.
SpreadDefaultsLast(a, b) ==
    [f \in DOMAIN a \cup DOMAIN b |-> IF f \in DOMAIN a THEN a[f] ELSE b[f]]

\* A merge that descends into the instrumentation options mapping.
SpreadDeep(a, b) ==
    [f \in DOMAIN a \cup DOMAIN b |->
        IF f \notin DOMAIN b THEN a[f]
        ELSE IF f = "autoInstrumentationConfig" /\ f \in DOMAIN a
                /\ a[f] # Undefined /\ b[f] # Undefined
             THEN Some([k \in DOMAIN a[f][1] \cup DOMAIN b[f][1] |->
                          IF k \in DOMAIN b[f][1] THEN b[f][1][k] ELSE a[f][1][k]])
             ELSE b[f]]

\* { ...a, ...b }: every own property of a, then every own property of b.
Spread(a, b) ==
    [f \in DOMAIN a \cup DOMAIN b |-> IF f \in DOMAIN b THEN b[f] ELSE a[f]]

\* A parameter declared "overrides = {}": undefined becomes the empty object.
DefaultParam(arg) == IF arg = Undefined THEN EmptyObject ELSE arg[1]

-----------------------------------------------------------------------------
(* types.ts and the options interface *)

\* The properties of GcpTelemetryConfig.
GcpTelemetryConfig ==
    {"sampler", "autoInstrumentation", "autoInstrumentationConfig",
     "metricExportIntervalMillis", "metricExportTimeoutMillis",
     "instrumentations", "disableMetrics", "disableTraces", "export"}

\* The properties of GcpTelemetryConfigOptions.
GcpTelemetryConfigOptions ==
    {"sampler", "autoInstrumentation", "autoInstrumentationConfig",
     "instrumentations", "metricExportIntervalMillis",
     "metricExportTimeoutMillis", "disableMetrics", "disableTraces",
     "forceDevExport"}

DnsInstrumentation == "@opentelemetry/instrumentation-dns"
HttpInstrumentation == "@opentelemetry/instrumentation-http"
DnsDisabled == (DnsInstrumentation :> [enabled |-> FALSE])

\* What a caller may put in an options object. The interface declares none
\* of its properties required, so each may also be present and undefined;
\* nothing checks the object against the interface, so it may also carry
\* "export" or a property no interface names.
PropertyNames == GcpTelemetryConfigOptions \cup {"export", "serviceName"}

PropertyValues(f) ==
    CASE f = "sampler" -> {Undefined, Some("AlwaysOffSampler")}
      [] f = "autoInstrumentation" -> {Undefined, Some(FALSE)}
      [] f = "autoInstrumentationConfig" ->
            {Undefined, Some(HttpInstrumentation :> [enabled |-> FALSE])}
      [] f = "instrumentations" -> {Undefined, Some(<<"customInstrumentation">>)}
      [] f = "metricExportIntervalMillis" -> {Undefined, Some(10000)}
      [] f = "metricExportTimeoutMillis" -> {Undefined, Some(10000)}
      [] f = "disableMetrics" -> {Undefined, Some(TRUE)}
      [] f = "disableTraces" -> {Undefined, Some(TRUE)}
      [] f = "forceDevExport" -> {Undefined, Some(FALSE), Some(TRUE)}
      [] f = "export" -> {Undefined, Some(FALSE), Some(TRUE)}
      [] f = "serviceName" -> {Undefined, Some("my-service")}

-----------------------------------------------------------------------------
(* TelemetryConfigs *)

\* The production defaults with the development metric cadence.
productionDefaultsDevCadence(arg) ==
    LET defaults ==
          [sampler |-> Some("AlwaysOnSampler"),
           autoInstrumentation |-> Some(TRUE),
           autoInstrumentationConfig |-> Some(DnsDisabled),
           instrumentations |-> Some(<<>>),
           metricExportIntervalMillis |-> Some(5000),
           metricExportTimeoutMillis |-> Some(5000),
           disableMetrics |-> Some(FALSE),
           disableTraces |-> Some(FALSE),
           export |-> Some(TRUE)]
    IN  Spread(defaults, DefaultParam(arg))

\* The production defaults with DNS instrumentation left enabled.
productionDefaultsNoDnsEntry(arg) ==
    LET defaults ==
          [sampler |-> Some("AlwaysOnSampler"),
           autoInstrumentation |-> Some(TRUE),
           autoInstrumentationConfig |-> Some(EmptyObject),
           instrumentations |-> Some(<<>>),
           metricExportIntervalMillis |-> Some(300000),
           metricExportTimeoutMillis |-> Some(300000),
           disableMetrics |-> Some(FALSE),
           disableTraces |-> Some(FALSE),
           export |-> Some(TRUE)]
    IN  Spread(defaults, DefaultParam(arg))

productionDefaults(arg) ==
    LET ovr == DefaultParam(arg)
        defaults ==
          [sampler |-> Some("AlwaysOnSampler"),
           autoInstrumentation |-> Some(TRUE),
           autoInstrumentationConfig |-> Some(DnsDisabled),
           instrumentations |-> Some(<<>>),
           metricExportIntervalMillis |-> Some(300000),
           metricExportTimeoutMillis |-> Some(300000),
           disableMetrics |-> Some(FALSE),
           disableTraces |-> Some(FALSE),
           export |-> Some(TRUE)]
    IN  Spread(defaults, ovr)

\* The development defaults that export whether or not forceDevExport is set.
developmentDefaultsAlwaysExport(arg) ==
    LET defaults ==
          [sampler |-> Some("AlwaysOnSampler"),
           autoInstrumentation |-> Some(TRUE),
           autoInstrumentationConfig |-> Some(DnsDisabled),
           instrumentations |-> Some(<<>>),
           metricExportIntervalMillis |-> Some(5000),
           metricExportTimeoutMillis |-> Some(5000),
           disableMetrics |-> Some(FALSE),
           disableTraces |-> Some(FALSE),
           export |-> Some(TRUE)]
    IN  Spread(defaults, DefaultParam(arg))

\* The development defaults kept in one module-level object that every call
\* merges its overrides into (Object.assign(defaults, overrides)); the object
\* is the configuration the last call returned.
developmentDefaultsShared(arg) ==
    LET ovr == DefaultParam(arg)
        defaults ==
          [sampler |-> Some("AlwaysOnSampler"),
           autoInstrumentation |-> Some(TRUE),
           autoInstrumentationConfig |-> Some(DnsDisabled),
           instrumentations |-> Some(<<>>),
           metricExportIntervalMillis |-> Some(5000),
           metricExportTimeoutMillis |-> Some(5000),
           disableMetrics |-> Some(FALSE),
           disableTraces |-> Some(FALSE),
           export |-> Some(Truthy(Get(ovr, "forceDevExport")))]
    IN  Spread(IF call.fn = "none" THEN defaults ELSE call.config, ovr)

developmentDefaults(arg) ==
    LET ovr == DefaultParam(arg)
        defaults ==
          [sampler |-> Some("AlwaysOnSampler"),
           autoInstrumentation |-> Some(TRUE),
           autoInstrumentationConfig |-> Some(DnsDisabled),
           instrumentations |-> Some(<<>>),
           metricExportIntervalMillis |-> Some(5000),
           metricExportTimeoutMillis |-> Some(5000),
           disableMetrics |-> Some(FALSE),
           disableTraces |-> Some(FALSE),
           export |-> Some(Truthy(Get(ovr, "forceDevExport")))]
    IN  Spread(defaults, ovr)

\* isDevEnv()
isDevEnv == env = "dev"

\* TelemetryConfigs.defaults
defaults(arg) ==
    LET ovr == DefaultParam(arg)
    IN  IF isDevEnv THEN developmentDefaults(Some(ovr))
                    ELSE productionDefaults(Some(ovr))

-----------------------------------------------------------------------------
(* The state before anything was called *)

NoCall == [fn |-> "none", seq |-> 0, env |-> "prod", arg |-> Undefined,
           config |-> EmptyObject]
NoOptions == [projectId |-> Undefined, credentials |-> Undefined,
              flowStateStore |-> Undefined, traceStore |-> Undefined]
NoPlugin == [kind |-> "none", loaded |-> Undefined,
             instrumentation |-> EmptyObject, logger |-> EmptyObject,
             flowStateStore |-> EmptyObject, traceStore |-> EmptyObject]
NoLogger == [format |-> "none", transports |-> <<>>]

Init ==
    /\ env \in Envs
    /\ overrides = Undefined
    /\ call = NoCall
    /\ first = NoCall
    /\ credsEnv = Undefined
    /\ options = NoOptions
    /\ plugin = NoPlugin
    /\ additionalStream = Undefined
    /\ logger = NoLogger

\* The process is started again, in either environment.
Restart(e) ==
    /\ env' = e
    /\ overrides' = Undefined
    /\ call' = NoCall
    /\ first' = NoCall
    /\ credsEnv' = Undefined
    /\ options' = NoOptions
    /\ plugin' = NoPlugin
    /\ additionalStream' = Undefined
    /\ logger' = NoLogger

-----------------------------------------------------------------------------
(* The caller writes the telemetryConfig options object *)

NothingCalled == call.fn = "none" /\ plugin.kind = "none"

\* telemetryConfig: {}
NewOverrides ==
    /\ NothingCalled
    /\ overrides = Undefined
    /\ overrides' = Some(EmptyObject)
    /\ UNCHANGED <<env, call, first, credsEnv, options, plugin,
                   additionalStream, logger>>

\* one more property f: v in the object
SetOverride(f, v) ==
    /\ NothingCalled
    /\ overrides # Undefined
    /\ f \notin DOMAIN overrides[1]
    /\ Cardinality(DOMAIN overrides[1]) < MaxOverrideFields
    /\ overrides' = Some(overrides[1] @@ (f :> v))
    /\ UNCHANGED <<env, call, first, credsEnv, options, plugin,
                   additionalStream, logger>>

-----------------------------------------------------------------------------
(* Calls of TelemetryConfigs *)

\* The record of a call: the function, the number of the call, the
\* environment it resolved for, its argument and what it returned.
CallOf(fn, arg) ==
    [fn |-> fn,
     seq |-> call.seq + 1,
     env |-> CASE fn = "defaults" -> env
               [] fn = "developmentDefaults" -> "dev"
               [] fn = "productionDefaults" -> "prod",
     arg |-> arg,
     config |-> CASE fn = "defaults" -> defaults(arg)
                  [] fn = "developmentDefaults" -> developmentDefaults(arg)
                  [] fn = "productionDefaults" -> productionDefaults(arg)]

CallDefaults ==
    /\ NothingCalled
    /\ call' = CallOf("defaults", overrides)
    /\ UNCHANGED <<env, overrides, first, credsEnv, options, plugin,
                   additionalStream, logger>>

CallDevelopmentDefaults ==
    /\ NothingCalled
    /\ call' = CallOf("developmentDefaults", overrides)
    /\ UNCHANGED <<env, overrides, first, credsEnv, options, plugin,
                   additionalStream, logger>>

CallProductionDefaults ==
    /\ NothingCalled
    /\ call' = CallOf("productionDefaults", overrides)
    /\ UNCHANGED <<env, overrides, first, credsEnv, options, plugin,
                   additionalStream, logger>>

Next ==
    \/ \E e \in Envs : Restart(e)
    \/ NewOverrides
    \/ \E f \in PropertyNames : \E v \in PropertyValues(f) : SetOverride(f, v)
    \/ CallDefaults
    \/ CallDevelopmentDefaults
    \/ CallProductionDefaults

Spec == Init /\ [][Next]_vars

-----------------------------------------------------------------------------
(* Repeated calls of TelemetryConfigs.defaults in one process *)

\* The arguments of the repeated calls: nothing, {} or one property.
SingleOverrideArgs ==
    {Undefined, Some(EmptyObject)} \cup
    {Some(f :> v) : <<f, v>> \in
        UNION {{f} \X PropertyValues(f) : f \in PropertyNames}}

\* The environment variable isDevEnv() reads is changed between calls.
SwitchEnv ==
    /\ env' = IF env = "dev" THEN "prod" ELSE "dev"
    /\ UNCHANGED <<overrides, call, first, credsEnv, options, plugin,
                   additionalStream, logger>>

\* The caller holds arg and calls TelemetryConfigs.defaults(arg); the first
\* call of the process is remembered.
RepeatDefaults(arg) ==
    /\ call.seq < MaxCalls
    /\ overrides' = arg
    /\ call' = CallOf("defaults", arg)
    /\ first' = IF first.fn = "none" THEN call' ELSE first
    /\ UNCHANGED <<env, credsEnv, options, plugin, additionalStream, logger>>

NextPurity ==
    \/ SwitchEnv
    \/ \E arg \in SingleOverrideArgs : RepeatDefaults(arg)

SpecPurity == Init /\ [][NextPurity]_vars

-----------------------------------------------------------------------------
(* Credentials and the plugin initialisers *)

EnvCredsText == "{service account json}"
\* JSON.parse of the text in GCLOUD_SERVICE_ACCOUNT_CREDS
JSONParse(text) ==
    [type |-> "service_account", project_id |-> "env-project",
     client_email |-> "sa@env-project", private_key |-> "env-private-key"]

\* new GoogleAuth(authOptions).getCredentials(): the credential body of the
\* service account the client was built on.
getCredentials(authOptions) ==
    [client_email |-> authOptions.credentials.client_email,
     private_key |-> authOptions.credentials.private_key]

\* authClient.getProjectId(): the project of the credentials the client was
\* built on, else the project of the application default credentials.
getProjectId(authOptions) ==
    IF "credentials" \in DOMAIN authOptions
    THEN authOptions.credentials.project_id ELSE "adc-project"

\* process.env.GCLOUD_SERVICE_ACCOUNT_CREDS is set before the plugin starts.
SetCredsEnv ==
    /\ NothingCalled
    /\ credsEnv = Undefined
    /\ credsEnv' = Some(EnvCredsText)
    /\ UNCHANGED <<env, overrides, call, first, options, plugin,
                   additionalStream, logger>>

OptionValues(k) ==
    CASE k = "projectId" -> {Some("my-project")}
      [] k = "credentials" ->
            {Some([client_email |-> "sa@my-project",
                   private_key |-> "option-private-key"])}
      [] k = "flowStateStore" -> {Some([collection |-> Some("flows")])}
      [] k = "traceStore" -> {Some([databaseId |-> Some("traces-db")])}

\* The caller writes one more property of the plugin options.
SetOption(k, v) ==
    /\ NothingCalled
    /\ options[k] = Undefined
    /\ options' = [options EXCEPT ![k] = v]
    /\ UNCHANGED <<env, overrides, call, first, credsEnv, plugin,
                   additionalStream, logger>>

\* The authOptions and the credentials local of both initialisers.
AuthOptions ==
    IF credsEnv # Undefined THEN [credentials |-> JSONParse(credsEnv[1])]
    ELSE EmptyObject
LoadedCredentials ==
    IF credsEnv # Undefined THEN Some(getCredentials(AuthOptions)) ELSE Undefined

\* options?.projectId || (await authClient.getProjectId())
ProjectId ==
    IF options.projectId # Undefined THEN options.projectId
    ELSE Some(getProjectId(AuthOptions))

\* The googleCloud plugin: what its initialiser builds and returns.
googleCloud ==
    LET config == [projectId |-> ProjectId,
                   telemetryConfig |-> defaults(overrides),
                   credentials |-> options.credentials]
    IN  [kind |-> "googleCloud",
         loaded |-> LoadedCredentials,
         instrumentation |-> config,
         logger |-> config,
         flowStateStore |-> EmptyObject,
         traceStore |-> EmptyObject]

\* The firebase plugin: what its initialiser builds and returns.
firebase ==
    LET credentials == LoadedCredentials
        gcpOptions == [projectId |-> ProjectId,
                       credentials |-> credentials,
                       telemetryConfig |-> defaults(overrides)]
        flowStateStoreOptions ==
            Spread([projectId |-> ProjectId, credentials |-> credentials],
                   DefaultParam(options.flowStateStore))
        traceStoreOptions ==
            Spread([projectId |-> ProjectId, credentials |-> credentials],
                   DefaultParam(options.traceStore))
    IN  [kind |-> "firebase",
         loaded |-> credentials,
         instrumentation |-> gcpOptions,
         logger |-> gcpOptions,
         flowStateStore |-> flowStateStoreOptions,
         traceStore |-> traceStoreOptions]

InitGoogleCloud ==
    /\ NothingCalled
    /\ plugin' = googleCloud
    /\ UNCHANGED <<env, overrides, call, first, credsEnv, options,
                   additionalStream, logger>>

InitFirebase ==
    /\ NothingCalled
    /\ plugin' = firebase
    /\ UNCHANGED <<env, overrides, call, first, credsEnv, options,
                   additionalStream, logger>>

-----------------------------------------------------------------------------
(* GcpLogger *)

\* getLogger with the transport chosen by the environment, not by export.
getLoggerTransportByEnv(config, stream) ==
    LET export == Truthy(Get(config.telemetryConfig, "export"))
    IN  [format |-> IF export THEN "json" ELSE "printf",
         transports |->
            <<IF ~isDevEnv
              THEN [type |-> "LoggingWinston", projectId |-> config.projectId,
                    logName |-> "genkit_log", credentials |-> config.credentials]
              ELSE [type |-> "Console"]>>
            \o (IF stream # Undefined
                THEN <<[type |-> "Stream", stream |-> stream[1]]>> ELSE <<>>)]

\* GcpLogger.getLogger over this.config and the module's additionalStream.
getLogger(config, stream) ==
    LET export == Truthy(Get(config.telemetryConfig, "export"))
        format == IF export THEN "json" ELSE "printf"
        primary ==
            IF export
            THEN [type |-> "LoggingWinston", projectId |-> config.projectId,
                  logName |-> "genkit_log", credentials |-> config.credentials]
            ELSE [type |-> "Console"]
        transports ==
            <<primary>> \o
            (IF stream # Undefined
             THEN <<[type |-> "Stream", stream |-> stream[1]]>> ELSE <<>>)
    IN  [format |-> format, transports |-> transports]

\* __addTransportStreamForTesting(stream)
AddTransportStreamForTesting ==
    /\ additionalStream' = Some("testStream")
    /\ UNCHANGED <<env, overrides, call, first, credsEnv, options, plugin,
                   logger>>

\* The framework asks the plugin's GcpLogger for its logger.
GetLogger ==
    /\ plugin.kind # "none"
    /\ logger' = getLogger(plugin.logger, additionalStream)
    /\ UNCHANGED <<env, overrides, call, first, credsEnv, options, plugin,
                   additionalStream>>

\* The properties of the options object that decide the export flag.
ExportProperties == {"forceDevExport", "export"}

NextPlugin ==
    \/ \E e \in Envs : Restart(e)
    \/ NewOverrides
    \/ \E f \in ExportProperties : \E v \in PropertyValues(f) : SetOverride(f, v)
    \/ SetCredsEnv
    \/ \E k \in DOMAIN NoOptions : \E v \in OptionValues(k) : SetOption(k, v)
    \/ InitGoogleCloud
    \/ InitFirebase
    \/ AddTransportStreamForTesting
    \/ GetLogger

SpecPlugin == Init /\ [][NextPlugin]_vars

-----------------------------------------------------------------------------
(* Properties of TelemetryConfigs, checked under Spec *)

Called == call.fn # "none"
\* The override record of the last call, after the default parameter.
CallOverrides == DefaultParam(call.arg)
\* resolve(e, {}): the default record of an environment.
DefaultRecord(e) ==
    IF e = "dev" THEN developmentDefaults(Some(EmptyObject))
                 ELSE productionDefaults(Some(EmptyObject))

\* C1: whatever the environment and the override record (a property that is
\* present and undefined included), every GcpTelemetryConfig property of the
\* returned record has a defined value.
C1_EveryFieldDefined ==
    Called =>
        \A f \in GcpTelemetryConfig :
            f \in DOMAIN call.config /\ call.config[f] # Undefined

\* C2: every property present in the override record, declared by an
\* interface or not, has in the returned record the value the override gives.
C2_OverrideWins ==
    Called =>
        \A f \in DOMAIN CallOverrides :
            f \in DOMAIN call.config /\ call.config[f] = CallOverrides[f]

C2_Witness ==
    /\ call.fn = "defaults"
    /\ call.env = "prod"
    /\ DOMAIN CallOverrides = {"export", "serviceName"}
    /\ CallOverrides["export"] = Some(FALSE)
    /\ call.config["export"] = Some(FALSE)

\* C3 as stated: every GcpTelemetryConfig property absent from the override
\* record has the value of the environment's default record.
C3_AbsentKeepsDefault ==
    Called =>
        \A f \in GcpTelemetryConfig \ DOMAIN CallOverrides :
            call.config[f] = DefaultRecord(call.env)[f]

\* C3 amended: every GcpTelemetryConfig property other than export that is
\* absent from the override record has the value of the environment's
\* default record; an absent export is true in production and, in
\* development, true exactly when the override's forceDevExport is truthy.
C3_AbsentKeepsDefaultButExport ==
    Called =>
        /\ \A f \in (GcpTelemetryConfig \ {"export"}) \ DOMAIN CallOverrides :
               call.config[f] = DefaultRecord(call.env)[f]
        /\ "export" \notin DOMAIN CallOverrides =>
               call.config["export"] =
                   IF call.env = "prod" THEN Some(TRUE)
                   ELSE Some(Get(CallOverrides, "forceDevExport") = Some(TRUE))

C3_Witness ==
    /\ call.fn = "developmentDefaults"
    /\ DOMAIN CallOverrides = {"forceDevExport", "disableTraces"}
    /\ CallOverrides["forceDevExport"] = Some(TRUE)
    /\ call.config["export"] = Some(TRUE)
    /\ call.config["disableMetrics"] = Some(FALSE)

\* C4: with no export property in the override record, development resolves
\* export to false unless forceDevExport is true, and production resolves it
\* to true; in particular for the empty record and for {forceDevExport: true}.
C4_ExportGateDefault ==
    Called =>
        /\ (call.env = "dev" /\ CallOverrides = EmptyObject)
               => call.config["export"] = Some(FALSE)
        /\ (call.env = "dev" /\ CallOverrides = [forceDevExport |-> Some(TRUE)])
               => call.config["export"] = Some(TRUE)
        /\ (call.env = "prod" /\ CallOverrides = EmptyObject)
               => call.config["export"] = Some(TRUE)
        /\ (call.env = "dev" /\ "export" \notin DOMAIN CallOverrides)
               => (call.config["export"] = Some(TRUE)
                      <=> Get(CallOverrides, "forceDevExport") = Some(TRUE))
               /\ call.config["export"] \in {Some(TRUE), Some(FALSE)}

C4_Witness ==
    /\ call.fn = "defaults"
    /\ call.env = "dev"
    /\ CallOverrides = [forceDevExport |-> Some(TRUE)]
    /\ call.config["export"] = Some(TRUE)

\* C5: with an empty override record the metric export interval is 300000 ms
\* in production and 5000 ms in development.
C5_MetricExportInterval ==
    (Called /\ CallOverrides = EmptyObject) =>
        call.config["metricExportIntervalMillis"] =
            IF call.env = "prod" THEN Some(300000) ELSE Some(5000)

C5_Witness ==
    /\ call.fn = "defaults"
    /\ call.env = "prod"
    /\ call.arg = Undefined
    /\ call.config["metricExportIntervalMillis"] = Some(300000)

\* C7: an override that supplies autoInstrumentationConfig is returned as
\* supplied; an entry of the default mapping that the supplied mapping does
\* not name (the disabled DNS instrumentation) is not in the result.
C7_ShallowMerge ==
    (Called /\ "autoInstrumentationConfig" \in DOMAIN CallOverrides) =>
        LET given == CallOverrides["autoInstrumentationConfig"]
            got == call.config["autoInstrumentationConfig"]
        IN  /\ got = given
            /\ given # Undefined =>
                   \A k \in DOMAIN DnsDisabled :
                       k \notin DOMAIN given[1] => k \notin DOMAIN got[1]

C7_Witness ==
    /\ Called
    /\ "autoInstrumentationConfig" \in DOMAIN CallOverrides
    /\ CallOverrides["autoInstrumentationConfig"] # Undefined
    /\ DOMAIN call.config["autoInstrumentationConfig"][1] = {HttpInstrumentation}

\* The other environment.
Other(e) == IF e = "dev" THEN "prod" ELSE "dev"

\* C8: resolution with an empty override record gives, in each environment,
\* the same sampler, autoInstrumentation, autoInstrumentationConfig,
\* instrumentations, disableMetrics and disableTraces as the default record
\* of the other environment.
C8_DefaultsAgree ==
    (Called /\ CallOverrides = EmptyObject) =>
        \A f \in GcpTelemetryConfig \
                   {"export", "metricExportIntervalMillis",
                    "metricExportTimeoutMillis"} :
            call.config[f] = DefaultRecord(Other(call.env))[f]

C8_Witness ==
    /\ call.fn = "productionDefaults"
    /\ env = "dev"
    /\ call.arg = Some(EmptyObject)
    /\ call.config["autoInstrumentationConfig"] = Some(DnsDisabled)

-----------------------------------------------------------------------------
(* Purity, checked under SpecPurity *)

-----------------------------------------------------------------------------
(* The plugins and the logger, checked under SpecPlugin *)

LoggerBuilt == logger.format # "none"

\* C9: a logger built while telemetryConfig.export is truthy has the JSON
\* format and the Cloud Logging transport first, one built while it is not
\* has the printf format and the Console transport first; the only other
\* transport a logger can have is the test stream, after the first.
C9_FormatAndTransportAgree ==
    LoggerBuilt =>
        LET export == Truthy(Get(plugin.logger.telemetryConfig, "export"))
            t == logger.transports
        IN  /\ Len(t) \in {1, 2}
            /\ export => logger.format = "json" /\ t[1].type = "LoggingWinston"
            /\ ~export => logger.format = "printf" /\ t[1].type = "Console"
            /\ logger.format = "json" <=> t[1].type = "LoggingWinston"
            /\ logger.format = "printf" <=> t[1].type = "Console"
            /\ Len(t) = 2 => t[2].type = "Stream" /\ additionalStream # Undefined

C9_Witness ==
    /\ LoggerBuilt
    /\ env = "dev"
    /\ Get(plugin.logger.telemetryConfig, "export") = Some(TRUE)
    /\ logger.format = "json"
    /\ Len(logger.transports) = 2
    /\ logger.transports[1].type = "LoggingWinston"

\* C10: when GCLOUD_SERVICE_ACCOUNT_CREDS is set, the credentials got from
\* the auth client built on it are the credentials of the configuration given
\* to GcpOpenTelemetry and to GcpLogger by either plugin, and of the options
\* given to the two Firestore stores by the firebase plugin.
C10_EnvCredentialsPassedOn ==
    (plugin.kind # "none" /\ credsEnv # Undefined) =>
        /\ plugin.instrumentation.credentials = plugin.loaded
        /\ plugin.logger.credentials = plugin.loaded
        /\ plugin.kind = "firebase" =>
               /\ plugin.flowStateStore["credentials"] = plugin.loaded
               /\ plugin.traceStore["credentials"] = plugin.loaded

=============================================================================
